---- MODULE Spec2Model ----
(***************************************************************************)
(* Model of CEnv (include/cenv.h): the process-wide dotenv_context `ctx`,  *)
(* its mutex, and the operations dotenv_init, dotenv_resize, dotenv_load,  *)
(* dotenv_get and dotenv_free, executed by threads statement by statement. *)
(* Strings are sequences of one-character strings.                         *)
(***************************************************************************)
EXTENDS Integers, Sequences, FiniteSets, TLC

VARIABLES
  ctx,        \* the static dotenv_context: vars (alloc, mem), var_count, capacity
  mutex,      \* ctx.mutex: owner thread (0 = unlocked) and lock count
  mutexKind,  \* what PTHREAD_MUTEX_DEFAULT does on this build when relocked
  pc,         \* per thread: the statement it is about to execute
  loc,        \* per thread: the locals of the running call
  prog,       \* per thread: the calls the application makes, in order
  ip,         \* per thread: index of the current call in prog
  hist,       \* per thread: the return values of the finished calls
  snap,       \* per thread: ctx as it was when the current call started
  fault,      \* "none", or the memory fault that ended the process
  allocFails, \* number of allocation failures so far
  pline       \* the one line of the file "fline" the application wrote

vars == <<ctx, mutex, mutexKind, pc, loc, prog, ip, hist, snap, fault,
          allocFails, pline>>

----------------------------------------------------------------------------
(* Program constants *)

INITIAL_CAPACITY == 10
MAX_LINE_LENGTH == 1024

(* Bounds of the model *)

MaxOps == 1
MaxSeqOps == 3
MaxAllocFailures == 1
MaxLineLen == 4

Threads == {1, 2}

----------------------------------------------------------------------------
(* C strings *)

LF == "\n"
CR == "\r"
TAB == "\t"
ENV_NEWLINE == <<LF>>

\* Markers for what a char* can be besides a valid string.
NULLSTR == <<"(null)">>
GARBAGE == <<"(garbage)">>
ABSENT == NULLSTR

IsSpace(c) == c \in {" ", TAB, LF, CR}

RECURSIVE SkipLeading(_)
SkipLeading(s) ==
  IF s # <<>> /\ IsSpace(Head(s)) THEN SkipLeading(Tail(s)) ELSE s

RECURSIVE DropTrailing(_)
DropTrailing(s) ==
  IF Len(s) > 1 /\ IsSpace(s[Len(s)])
  THEN DropTrailing(SubSeq(s, 1, Len(s) - 1))
  ELSE s

trim_whitespace(str) ==
  LET s == SkipLeading(str)
  IN IF s = <<>> THEN s ELSE DropTrailing(s)

\* The least element of a non-empty set of indices.
First(idx) == CHOOSE i \in idx : \A m \in idx : i <= m

\* Index of the first occurrence of character c in s, 0 if none (strchr).
strchr(s, c) ==
  LET hits == {i \in 1..Len(s) : s[i] = c}
  IN IF hits = {} THEN 0 ELSE First(hits)

\* Index of the first occurrence of the string needle in s, 0 if none (strstr).
strstr(s, needle) ==
  LET n == Len(needle)
      hits == {i \in 1..(Len(s) - n + 1) : SubSeq(s, i, i + n - 1) = needle}
  IN IF hits = {} THEN 0 ELSE First(hits)

\* fgets(line, MAX_LINE_LENGTH, file) at offset pos of the file content:
\* at most MAX_LINE_LENGTH - 1 characters, stopping after a newline.
fgets(content, pos) ==
  LET rest == SubSeq(content, pos, Len(content))
      nl == strchr(rest, LF)
      n == IF nl # 0 /\ nl <= MAX_LINE_LENGTH - 1 THEN nl
           ELSE IF Len(rest) <= MAX_LINE_LENGTH - 1 THEN Len(rest)
           ELSE MAX_LINE_LENGTH - 1
  IN SubSeq(rest, 1, n)

\* The line terminator is cut off: at ENV_NEWLINE, else at a single '\n'.
StripNewline(line) ==
  LET p == strstr(line, ENV_NEWLINE)
      q == strchr(line, LF)
  IN IF p # 0 THEN SubSeq(line, 1, p - 1)
     ELSE IF q # 0 THEN SubSeq(line, 1, q - 1)
     ELSE line

\* A loop that splits the line at its last '=' (strrchr).
ParseLineAtLastEq(chunk) ==
  LET line == StripNewline(chunk)
      eqs == {i \in 1..Len(line) : line[i] = "="}
      d == IF eqs = {} THEN 0 ELSE CHOOSE i \in eqs : \A m \in eqs : m <= i
      key == trim_whitespace(SubSeq(line, 1, d - 1))
      value == trim_whitespace(SubSeq(line, d + 1, Len(line)))
  IN IF line = <<>> \/ line[1] = "#" THEN [skip |-> TRUE, key |-> <<>>, value |-> <<>>]
     ELSE IF d = 0 THEN [skip |-> TRUE, key |-> <<>>, value |-> <<>>]
     ELSE IF key = <<>> THEN [skip |-> TRUE, key |-> <<>>, value |-> <<>>]
     ELSE [skip |-> FALSE, key |-> key, value |-> value]

\* The body of the while loop of dotenv_load up to the insert: either the
\* line is skipped or it yields the key and the value to store.
ParseLine(chunk) ==
  LET line == StripNewline(chunk)
      d == strchr(line, "=")
      key == trim_whitespace(SubSeq(line, 1, d - 1))
      value == trim_whitespace(SubSeq(line, d + 1, Len(line)))
  IN IF line = <<>> \/ line[1] = "#" THEN [skip |-> TRUE, key |-> <<>>, value |-> <<>>]
     ELSE IF d = 0 THEN [skip |-> TRUE, key |-> <<>>, value |-> <<>>]
     ELSE IF key = <<>> THEN [skip |-> TRUE, key |-> <<>>, value |-> <<>>]
     ELSE [skip |-> FALSE, key |-> key, value |-> value]

----------------------------------------------------------------------------
(* The files the application can name, as the bytes fopen/fgets deliver *)

RECURSIVE JoinLines(_)
JoinLines(ls) ==
  IF ls = <<>> THEN <<>> ELSE Head(ls) \o <<LF>> \o JoinLines(Tail(ls))

ElevenKeys == <<"a", "b", "c", "d", "e", "f", "g", "h", "i", "j", "k">>

File11 == JoinLines([n \in 1..11 |-> <<ElevenKeys[n], "=", ElevenKeys[n], "1">>])
FileA == JoinLines(<< <<"A", "=", "f", "o", "o">>, <<"B", "=", "b">> >>)
FileB == JoinLines(<< <<"C", "=", "1">>, <<"D", "=", "2">> >>)
FileDup == JoinLines(<< <<"A", "=", "x">>, <<"A", "=", "y">> >>)
FileMix == JoinLines(<< <<"#", " ", "c">>, <<>>, <<"n", "o">>, <<" ", "=", "v">>,
                        <<" ", "E", " ", "=", " ", "e", " ">>,
                        <<"F", "=", "g", "=", "h", CR>>, <<"G", "=">> >>)
FileCmt == JoinLines(<< <<"K", "=", "v", " ", "#", " ", "c">>,
                        <<"Q", "=", "\"", "v", " ", "#", " ", "n", "\"">> >>)
FilePh == JoinLines(<< <<"A", "=", "f", "o", "o">>,
                       <<"B", "=", "$", "{", "A", "}">>,
                       <<"C", "=", "$", "{", "D", "}">>,
                       <<"D", "=", "z">> >>)

\* One line of MAX_LINE_LENGTH + 2 characters before its '\n': L=vv...v
\* fills a buffer of fgets (MAX_LINE_LENGTH - 1 characters), M=w follows.
FileLong == <<"L", "=">> \o [n \in 1..(MAX_LINE_LENGTH - 3) |-> "v"]
              \o <<"M", "=", "w", LF>>

FileNames ==
  {"f11", "fA", "fB", "fdup", "fmix", "fcmt", "fph", "flong", "fline"}
MissingPath == "missing"

\* The bytes of the files whose content is fixed.
StaticContent(name) ==
  CASE name = "f11" -> File11
    [] name = "fA" -> FileA
    [] name = "fB" -> FileB
    [] name = "fdup" -> FileDup
    [] name = "fmix" -> FileMix
    [] name = "fcmt" -> FileCmt
    [] name = "fph" -> FilePh
    [] name = "flong" -> FileLong
    [] OTHER -> <<>>

Content(name) ==
  IF name = "fline" THEN pline \o <<LF>> ELSE StaticContent(name)

\* An fopen whose result is not checked.
CanOpenAlways(name) == TRUE

\* fopen(filename, "r") succeeds exactly for the files that exist.
CanOpen(name) == name \in FileNames

----------------------------------------------------------------------------
(* The calls of the application *)

OK == <<"0">>
FAIL == <<"-1">>
VOID == <<"(void)">>

LoadOp(name) == [op |-> "load", arg |-> <<name>>]
GetOp(key) == [op |-> "get", arg |-> key]
FreeOp == [op |-> "free", arg |-> <<>>]

\* All sequences of length at most n over the set S.
SeqsUpTo(S, n) == UNION {[1..m -> S] : m \in 0..n}

NoLocals == [file |-> "", pos |-> 0, key |-> <<>>, value |-> <<>>, i |-> 0,
             new_capacity |-> 0, newmem |-> <<>>, moved |-> FALSE]

----------------------------------------------------------------------------
(* ctx and its mutex *)

\* static dotenv_context ctx = {NULL, 0, 0, PTHREAD_MUTEX_INITIALIZER};
\* vars is NULL (alloc = FALSE) or points to a block whose valid elements
\* are mem; freed = TRUE while it points to a block already given back.
CtxInit == [alloc |-> FALSE, mem |-> <<>>, freed |-> FALSE,
            var_count |-> 0, capacity |-> 0]

MutexInit == [owner |-> 0, count |-> 0]

\* What relocking a PTHREAD_MUTEX_DEFAULT mutex by its owner does is
\* undefined; a build blocks forever, reports EDEADLK or counts the lock.
MutexKinds == {"normal", "errorcheck", "recursive"}

UninitSlot == [key |-> GARBAGE, value |-> GARBAGE]

FreshBlock(n) == [j \in 1..n |-> UninitSlot]

\* pthread_mutex_lock returns for thread t in this state.
LockEnabled(t) ==
  \/ mutex.owner = 0
  \/ mutex.owner = t /\ mutexKind \in {"errorcheck", "recursive"}

Locked(t) ==
  IF mutex.owner = 0 THEN [owner |-> t, count |-> 1]
  ELSE IF mutexKind = "recursive" THEN [mutex EXCEPT !.count = @ + 1]
  ELSE mutex

\* pthread_mutex_unlock by thread t; EPERM and no effect when t is not
\* the owner.
Unlocked(t) ==
  IF mutex.owner # t THEN mutex
  ELSE IF mutex.count > 1 THEN [mutex EXCEPT !.count = @ - 1]
  ELSE MutexInit

\* ctx.vars[i] is inside the block ctx.vars points to (i counts from 0).
ValidIndex(c, i) == c.alloc /\ i >= 0 /\ i < Len(c.mem)

----------------------------------------------------------------------------
(* Frames *)

Goto(t, p) == pc' = [pc EXCEPT ![t] = p]

Return(t, r) ==
  /\ pc' = [pc EXCEPT ![t] = "idle"]
  /\ hist' = [hist EXCEPT ![t] = Append(@, [op |-> prog[t][ip[t]].op,
                                            arg |-> prog[t][ip[t]].arg,
                                            ret |-> r])]
  /\ ip' = [ip EXCEPT ![t] = @ + 1]

Fixed == <<mutexKind, prog, pline>>

\* The process dies of a memory fault; nothing else changes any more.
Crash(kind) ==
  /\ fault' = kind
  /\ UNCHANGED <<ctx, mutex, pc, loc, ip, hist, snap, allocFails, Fixed>>

At(t, p) == fault = "none" /\ pc[t] = p

----------------------------------------------------------------------------
(* The application calls dotenv_load, dotenv_get or dotenv_free *)

Call(t) ==
  /\ At(t, "idle")
  /\ ip[t] <= Len(prog[t])
  /\ LET c == prog[t][ip[t]]
     IN /\ Goto(t, CASE c.op = "load" -> "init_lock"
                     [] c.op = "get" -> "get_lock"
                     [] c.op = "free" -> "free_lock")
        /\ loc' = [loc EXCEPT ![t] =
                     [NoLocals EXCEPT !.file = IF c.op = "load" THEN c.arg[1] ELSE "",
                                      !.key = IF c.op = "get" THEN c.arg ELSE <<>>]]
  /\ snap' = [snap EXCEPT ![t] = ctx]
  /\ UNCHANGED <<ctx, mutex, ip, hist, fault, allocFails, Fixed>>

----------------------------------------------------------------------------
(* dotenv_init(10), called first by dotenv_load *)

InitLock(t) ==
  /\ At(t, "init_lock")
  /\ LockEnabled(t)
  /\ mutex' = Locked(t)
  /\ Goto(t, "init_check")
  /\ UNCHANGED <<ctx, loc, ip, hist, snap, fault, allocFails, Fixed>>

\* An initialize that allocates a new array whether or not ctx.vars is NULL.
InitCheckAlways(t) ==
  /\ At(t, "init_check")
  /\ \E ok \in BOOLEAN :
       /\ ~ok => allocFails < MaxAllocFailures
       /\ IF ok
          THEN /\ ctx' = [ctx EXCEPT !.alloc = TRUE, !.freed = FALSE,
                                      !.mem = FreshBlock(INITIAL_CAPACITY)]
               /\ Goto(t, "init_set")
               /\ UNCHANGED allocFails
          ELSE /\ allocFails' = allocFails + 1
               /\ Goto(t, "init_fail")
               /\ UNCHANGED ctx
  /\ UNCHANGED <<mutex, loc, ip, hist, snap, fault, Fixed>>

\* if (ctx.vars == NULL) { ctx.vars = malloc(...); if (!ctx.vars) ... }
InitCheck(t) ==
  /\ At(t, "init_check")
  /\ \E ok \in BOOLEAN :
       /\ ~ok => (~ctx.alloc /\ allocFails < MaxAllocFailures)
       /\ IF ctx.alloc
          THEN Goto(t, "init_unlock") /\ UNCHANGED <<ctx, allocFails>>
          ELSE IF ok
          THEN /\ ctx' = [ctx EXCEPT !.alloc = TRUE, !.freed = FALSE,
                                      !.mem = FreshBlock(INITIAL_CAPACITY)]
               /\ Goto(t, "init_set")
               /\ UNCHANGED allocFails
          ELSE /\ allocFails' = allocFails + 1
               /\ Goto(t, "init_fail")
               /\ UNCHANGED ctx
  /\ UNCHANGED <<mutex, loc, ip, hist, snap, fault, Fixed>>

\* ctx.var_count = 0; ctx.capacity = initial_capacity;
InitSet(t) ==
  /\ At(t, "init_set")
  /\ ctx' = [ctx EXCEPT !.var_count = 0, !.capacity = INITIAL_CAPACITY]
  /\ Goto(t, "init_unlock")
  /\ UNCHANGED <<mutex, loc, ip, hist, snap, fault, allocFails, Fixed>>

InitUnlock(t) ==
  /\ At(t, "init_unlock")
  /\ mutex' = Unlocked(t)
  /\ Goto(t, "fopen")
  /\ UNCHANGED <<ctx, loc, ip, hist, snap, fault, allocFails, Fixed>>

\* malloc failed: unlock, dotenv_init returns -1 and so does dotenv_load.
InitFail(t) ==
  /\ At(t, "init_fail")
  /\ mutex' = Unlocked(t)
  /\ Return(t, FAIL)
  /\ UNCHANGED <<ctx, loc, snap, fault, allocFails, Fixed>>

----------------------------------------------------------------------------
(* dotenv_load: reading the file *)

Fopen(t) ==
  /\ At(t, "fopen")
  /\ IF CanOpen(loc[t].file)
     THEN /\ loc' = [loc EXCEPT ![t].pos = 1]
          /\ Goto(t, "fgets")
          /\ UNCHANGED <<ip, hist>>
     ELSE /\ Return(t, FAIL)
          /\ UNCHANGED loc
  /\ UNCHANGED <<ctx, mutex, snap, fault, allocFails, Fixed>>

\* One turn of while (fgets(...)) up to the insert, or fclose; return 0.
Fgets(t) ==
  /\ At(t, "fgets")
  /\ \E content \in {Content(loc[t].file)} :
       \E chunk \in {fgets(content, loc[t].pos)} :
         \E r \in {ParseLine(chunk)} :
           IF loc[t].pos > Len(content)
           THEN /\ Return(t, OK)
                /\ UNCHANGED loc
           ELSE /\ loc' = [loc EXCEPT ![t].pos = @ + Len(chunk),
                                       ![t].key = IF r.skip THEN @ ELSE r.key,
                                       ![t].value = IF r.skip THEN @ ELSE r.value]
                /\ Goto(t, IF r.skip THEN "fgets" ELSE "ins_lock")
                /\ UNCHANGED <<ip, hist>>
  /\ UNCHANGED <<ctx, mutex, snap, fault, allocFails, Fixed>>

----------------------------------------------------------------------------
(* dotenv_load: the insert of one entry, lines 186-207 *)

InsLock(t) ==
  /\ At(t, "ins_lock")
  /\ LockEnabled(t)
  /\ mutex' = Locked(t)
  /\ Goto(t, "ins_check")
  /\ UNCHANGED <<ctx, loc, ip, hist, snap, fault, allocFails, Fixed>>

\* if (ctx.var_count >= ctx.capacity) dotenv_resize();
InsCheck(t) ==
  /\ At(t, "ins_check")
  /\ Goto(t, IF ctx.var_count >= ctx.capacity THEN "rs_lock" ELSE "ins_key")
  /\ UNCHANGED <<ctx, mutex, loc, ip, hist, snap, fault, allocFails, Fixed>>

\* dotenv_resize locks ctx.mutex, which its caller dotenv_load holds.
RsLock(t) ==
  /\ At(t, "rs_lock")
  /\ LockEnabled(t)
  /\ mutex' = Locked(t)
  /\ Goto(t, "rs_realloc")
  /\ UNCHANGED <<ctx, loc, ip, hist, snap, fault, allocFails, Fixed>>

\* The block realloc returns for n elements: the old elements, then
\* uninitialized ones.
NewBlock(n) ==
  IF n >= Len(ctx.mem) THEN ctx.mem \o FreshBlock(n - Len(ctx.mem))
  ELSE SubSeq(ctx.mem, 1, n)

\* int new_capacity = ctx.capacity * 2;
\* env_var *new_vars = realloc(ctx.vars, sizeof(env_var) * new_capacity);
\* realloc fails, grows the block in place or moves it (the old block is
\* then freed while ctx.vars still points to it); with size 0 it returns
\* NULL (a non-NULL ctx.vars is freed) or a block of no elements.
RsRealloc(t) ==
  /\ At(t, "rs_realloc")
  /\ \E o \in {"null", "inplace", "moved", "crash"} :
       LET n == ctx.capacity * 2 IN
       /\ o = "null" => (n = 0 \/ allocFails < MaxAllocFailures)
       /\ o = "inplace" => (ctx.alloc /\ ~ctx.freed)
       /\ o = "crash" <=> (ctx.alloc /\ ctx.freed)
       /\ IF o = "crash" THEN Crash("heap")
          ELSE /\ ctx' = CASE o = "null" /\ n = 0 /\ ctx.alloc ->
                                 [ctx EXCEPT !.freed = TRUE, !.mem = <<>>]
                            [] o = "null" /\ ~(n = 0 /\ ctx.alloc) -> ctx
                            [] o = "inplace" -> [ctx EXCEPT !.mem = NewBlock(n)]
                            [] o = "moved" ->
                                 [ctx EXCEPT !.freed = ctx.alloc, !.mem = <<>>]
               /\ loc' = [loc EXCEPT ![t].new_capacity = n,
                                     ![t].newmem = IF o = "moved" THEN NewBlock(n) ELSE <<>>,
                                     ![t].moved = (o = "moved")]
               /\ allocFails' = IF o = "null" /\ n # 0 THEN allocFails + 1
                                ELSE allocFails
               /\ Goto(t, IF o = "null" THEN "rs_fail" ELSE "rs_assign")
               /\ UNCHANGED <<mutex, ip, hist, snap, fault, Fixed>>

\* ctx.vars = new_vars; ctx.capacity = new_capacity;
RsAssign(t) ==
  /\ At(t, "rs_assign")
  /\ ctx' = IF loc[t].moved
            THEN [ctx EXCEPT !.alloc = TRUE, !.freed = FALSE,
                             !.mem = loc[t].newmem,
                             !.capacity = loc[t].new_capacity]
            ELSE [ctx EXCEPT !.capacity = loc[t].new_capacity]
  /\ Goto(t, "rs_unlock")
  /\ UNCHANGED <<mutex, loc, ip, hist, snap, fault, allocFails, Fixed>>

\* The unlock at the end of dotenv_resize; dotenv_load goes on.
RsUnlock(t) ==
  /\ At(t, "rs_unlock")
  /\ mutex' = Unlocked(t)
  /\ Goto(t, "ins_key")
  /\ UNCHANGED <<ctx, loc, ip, hist, snap, fault, allocFails, Fixed>>

\* realloc returned NULL: dotenv_resize unlocks and returns -1.
RsFail(t) ==
  /\ At(t, "rs_fail")
  /\ mutex' = Unlocked(t)
  /\ Goto(t, "ins_fail")
  /\ UNCHANGED <<ctx, loc, ip, hist, snap, fault, allocFails, Fixed>>

\* A failure path that returns -1 without unlocking ctx.mutex.
InsFailKeepsLock(t) ==
  /\ At(t, "ins_fail")
  /\ Return(t, FAIL)
  /\ UNCHANGED <<ctx, mutex, loc, snap, fault, allocFails, Fixed>>

\* pthread_mutex_unlock; fclose(file); return -1;
InsFail(t) ==
  /\ At(t, "ins_fail")
  /\ mutex' = Unlocked(t)
  /\ Return(t, FAIL)
  /\ UNCHANGED <<ctx, loc, snap, fault, allocFails, Fixed>>

\* ctx.vars[ctx.var_count].<field> = strdup(str): strdup can return NULL;
\* the store faults on a NULL ctx.vars and is undefined outside the block
\* (the process dies or the write lands outside the array).
StoreField(t, field, str, next) ==
  \E ok \in BOOLEAN, o \in {"crash", "go"} :
    /\ ~ok => allocFails < MaxAllocFailures
    /\ o = "crash" => ~ValidIndex(ctx, ctx.var_count)
    /\ ~ctx.alloc => o = "crash"
    /\ IF o = "crash"
       THEN Crash(IF ctx.alloc THEN "heap" ELSE "segv")
       ELSE /\ ctx' = IF ValidIndex(ctx, ctx.var_count)
                      THEN [ctx EXCEPT !.mem[ctx.var_count + 1][field] =
                                          IF ok THEN str ELSE NULLSTR]
                      ELSE ctx
            /\ allocFails' = IF ok THEN allocFails ELSE allocFails + 1
            /\ Goto(t, next)
            /\ UNCHANGED <<mutex, loc, ip, hist, snap, fault, Fixed>>

InsKey(t) ==
  /\ At(t, "ins_key")
  /\ StoreField(t, "key", loc[t].key, "ins_value")

InsValue(t) ==
  /\ At(t, "ins_value")
  /\ StoreField(t, "value", loc[t].value, "ins_test")

\* if (!ctx.vars[ctx.var_count].key || !ctx.vars[ctx.var_count].value)
InsTest(t) ==
  /\ At(t, "ins_test")
  /\ \E o \in {"crash", "fail", "pass"} :
       LET valid == ValidIndex(ctx, ctx.var_count)
           slot == IF valid THEN ctx.mem[ctx.var_count + 1] ELSE UninitSlot
           defined == slot.key # GARBAGE /\ slot.value # GARBAGE
           isnull == slot.key = NULLSTR \/ slot.value = NULLSTR
       IN /\ o = "crash" => ~valid
          /\ ~ctx.alloc => o = "crash"
          /\ (o = "fail" /\ defined) => isnull
          /\ (o = "pass" /\ valid) => ~isnull
          /\ IF o = "crash"
             THEN Crash(IF ctx.alloc THEN "heap" ELSE "segv")
             ELSE /\ Goto(t, IF o = "fail" THEN "ins_fail" ELSE "ins_incr")
                  /\ UNCHANGED <<ctx, mutex, loc, ip, hist, snap, fault,
                                 allocFails, Fixed>>

\* ctx.var_count++;
InsIncr(t) ==
  /\ At(t, "ins_incr")
  /\ ctx' = [ctx EXCEPT !.var_count = @ + 1]
  /\ Goto(t, "ins_unlock")
  /\ UNCHANGED <<mutex, loc, ip, hist, snap, fault, allocFails, Fixed>>

InsUnlock(t) ==
  /\ At(t, "ins_unlock")
  /\ mutex' = Unlocked(t)
  /\ Goto(t, "fgets")
  /\ UNCHANGED <<ctx, loc, ip, hist, snap, fault, allocFails, Fixed>>

----------------------------------------------------------------------------
(* dotenv_get *)

GetLock(t) ==
  /\ At(t, "get_lock")
  /\ LockEnabled(t)
  /\ mutex' = Locked(t)
  /\ Goto(t, "get_scan")
  /\ UNCHANGED <<ctx, loc, ip, hist, snap, fault, allocFails, Fixed>>

\* One turn of for (i = 0; i < ctx.var_count; i++) with its strcmp; a key
\* pointer that is NULL faults, one that is garbage faults or mismatches.
GetScan(t) ==
  /\ At(t, "get_scan")
  /\ \E o \in {"crash", "go"} :
       LET i == loc[t].i
           inloop == i < ctx.var_count
           valid == ValidIndex(ctx, i)
           k == IF valid THEN ctx.mem[i + 1].key ELSE GARBAGE
       IN /\ o = "crash" => (inloop /\ (k = GARBAGE \/ k = NULLSTR))
          /\ (inloop /\ (~ctx.alloc \/ k = NULLSTR)) => o = "crash"
          /\ IF o = "crash"
             THEN Crash(IF ctx.alloc /\ k = GARBAGE THEN "heap" ELSE "segv")
             ELSE /\ IF ~inloop THEN Goto(t, "get_miss") /\ UNCHANGED loc
                     ELSE IF k = loc[t].key THEN Goto(t, "get_found") /\ UNCHANGED loc
                     ELSE /\ loc' = [loc EXCEPT ![t].i = @ + 1]
                          /\ UNCHANGED pc
                  /\ UNCHANGED <<ctx, mutex, ip, hist, snap, fault, allocFails,
                                 Fixed>>

\* The unlock before return ctx.vars[i].value;
GetFound(t) ==
  /\ At(t, "get_found")
  /\ mutex' = Unlocked(t)
  /\ Goto(t, "get_ret")
  /\ UNCHANGED <<ctx, loc, ip, hist, snap, fault, allocFails, Fixed>>

\* A dotenv_get that returns the value of the last entry.
ValueAtLast(c, i) ==
  IF ValidIndex(c, c.var_count - 1) THEN c.mem[c.var_count].value ELSE GARBAGE

\* ctx.vars[i].value
ValueAt(c, i) == IF ValidIndex(c, i) THEN c.mem[i + 1].value ELSE GARBAGE

\* return ctx.vars[i].value; evaluated after the unlock.
GetRet(t) ==
  /\ At(t, "get_ret")
  /\ IF ~ctx.alloc
     THEN Crash("segv")
     ELSE /\ Return(t, ValueAt(ctx, loc[t].i))
          /\ UNCHANGED <<ctx, mutex, loc, snap, fault, allocFails, Fixed>>

\* The loop found nothing: unlock; return NULL;
GetMiss(t) ==
  /\ At(t, "get_miss")
  /\ mutex' = Unlocked(t)
  /\ Return(t, ABSENT)
  /\ UNCHANGED <<ctx, loc, snap, fault, allocFails, Fixed>>

----------------------------------------------------------------------------
(* dotenv_free *)

FreeLock(t) ==
  /\ At(t, "free_lock")
  /\ LockEnabled(t)
  /\ mutex' = Locked(t)
  /\ Goto(t, "free_body")
  /\ UNCHANGED <<ctx, loc, ip, hist, snap, fault, allocFails, Fixed>>

\* free() of a pointer that is garbage or already freed is undefined.
BadFree(c) ==
  \/ c.freed
  \/ c.var_count > Len(c.mem)
  \/ \E j \in 1..c.var_count :
       j <= Len(c.mem) /\ (c.mem[j].key = GARBAGE \/ c.mem[j].value = GARBAGE)

\* A dotenv_free that forgets ctx.var_count = 0.
AfterFreeKeepsCount(c) == [c EXCEPT !.alloc = FALSE, !.mem = <<>>, !.freed = FALSE,
                                    !.capacity = 0]

\* A dotenv_free that forgets ctx.vars = NULL.
AfterFreeKeepsPointer(c) == [c EXCEPT !.mem = <<>>, !.freed = TRUE,
                                      !.var_count = 0, !.capacity = 0]

\* ctx.vars = NULL; ctx.var_count = 0; ctx.capacity = 0;
AfterFree(c) == [c EXCEPT !.alloc = FALSE, !.mem = <<>>, !.freed = FALSE,
                          !.var_count = 0, !.capacity = 0]

\* if (ctx.vars) { free every key and value; free(ctx.vars); ... }
FreeBody(t) ==
  /\ At(t, "free_body")
  /\ \E o \in {"crash", "go"} :
       /\ o = "crash" => (ctx.alloc /\ BadFree(ctx))
       /\ IF o = "crash" THEN Crash("heap")
          ELSE /\ ctx' = IF ctx.alloc THEN AfterFree(ctx) ELSE ctx
               /\ Goto(t, "free_unlock")
               /\ UNCHANGED <<mutex, loc, ip, hist, snap, fault, allocFails,
                              Fixed>>

FreeUnlock(t) ==
  /\ At(t, "free_unlock")
  /\ mutex' = Unlocked(t)
  /\ Return(t, VOID)
  /\ UNCHANGED <<ctx, loc, snap, fault, allocFails, Fixed>>

----------------------------------------------------------------------------
(* Specifications *)

\* The calls of a single-threaded application.
SeqOps ==
  {LoadOp(f) : f \in {"fA", "fdup", MissingPath}} \cup {GetOp(<<"A">>), FreeOp}

\* Single loads of the files that exercise the line format.
FormatPrograms ==
  {<<LoadOp(f)>> : f \in {"fB", "fmix", "fcmt", "fph", "flong"}}

\* Programs that load the file of 11 entries, which fills the initial array.
GrowPrograms ==
  {<<LoadOp("f11")>>,
   <<LoadOp("f11"), GetOp(<<"k">>)>>,
   <<LoadOp("f11"), GetOp(<<"a">>), FreeOp>>,
   <<LoadOp("f11"), FreeOp, LoadOp("fA")>>,
   <<LoadOp("fA"), LoadOp("f11"), GetOp(<<"A">>)>>,
   <<LoadOp("fdup"), FreeOp, LoadOp("f11")>>}

SeqPrograms == SeqsUpTo(SeqOps, MaxSeqOps) \cup FormatPrograms \cup GrowPrograms

\* The load of a file of one line, for every line of up to MaxLineLen
\* characters of the alphabet.
Alphabet == {"K", "v", " ", TAB, "=", "#", "\""}
Lines == SeqsUpTo(Alphabet, MaxLineLen)
LinePrograms == {<<LoadOp("fline")>>}

\* The calls of the two threads of a multi-threaded application.
ConcOps(t) ==
  IF t = 1 THEN {LoadOp("fA"), LoadOp("f11"), GetOp(<<"A">>), FreeOp}
  ELSE {LoadOp("fB"), GetOp(<<"A">>), FreeOp}

InitCommon ==
  /\ ctx = CtxInit
  /\ mutex = MutexInit
  /\ mutexKind \in MutexKinds
  /\ pc = [t \in Threads |-> "idle"]
  /\ loc = [t \in Threads |-> NoLocals]
  /\ ip = [t \in Threads |-> 1]
  /\ hist = [t \in Threads |-> <<>>]
  /\ snap = [t \in Threads |-> CtxInit]
  /\ fault = "none"
  /\ allocFails = 0

\* Two threads, each making up to MaxOps calls.
Init ==
  /\ InitCommon
  /\ pline = <<>>
  /\ \E p1 \in SeqsUpTo(ConcOps(1), MaxOps), p2 \in SeqsUpTo(ConcOps(2), MaxOps) :
       prog = <<p1, p2>>

\* One thread making up to MaxSeqOps calls; the other makes none.
SeqInit ==
  /\ InitCommon
  /\ \E p \in SeqPrograms \cup LinePrograms :
       /\ prog = [t \in Threads |-> IF t = 1 THEN p ELSE <<>>]
       /\ pline \in IF p \in LinePrograms THEN Lines ELSE {<<>>}

Next ==
  \E t \in Threads :
    \/ Call(t)
    \/ InitLock(t)
    \/ InitCheck(t)
    \/ InitSet(t)
    \/ InitUnlock(t)
    \/ InitFail(t)
    \/ Fopen(t)
    \/ Fgets(t)
    \/ InsLock(t)
    \/ InsCheck(t)
    \/ RsLock(t)
    \/ RsRealloc(t)
    \/ RsAssign(t)
    \/ RsUnlock(t)
    \/ RsFail(t)
    \/ InsFail(t)
    \/ InsKey(t)
    \/ InsValue(t)
    \/ InsTest(t)
    \/ InsIncr(t)
    \/ InsUnlock(t)
    \/ GetLock(t)
    \/ GetScan(t)
    \/ GetFound(t)
    \/ GetRet(t)
    \/ GetMiss(t)
    \/ FreeLock(t)
    \/ FreeBody(t)
    \/ FreeUnlock(t)

Spec == Init /\ [][Next]_vars

SeqSpec == SeqInit /\ [][Next]_vars

\* A single-threaded application that fills the initial array, or asks for
\* a key of the empty store; the one running thread is scheduled whenever
\* it has a statement to execute.
FairPrograms == GrowPrograms \cup {<<GetOp(<<"A">>), LoadOp(MissingPath)>>}

FairInit ==
  /\ InitCommon
  /\ pline = <<>>
  /\ \E p \in FairPrograms : prog = [t \in Threads |-> IF t = 1 THEN p ELSE <<>>]

FairSeqSpec == FairInit /\ [][Next]_vars /\ WF_vars(Next)

TypeOK ==
  /\ ctx.var_count \in Nat
  /\ ctx.capacity \in Nat
  /\ mutex.owner \in Threads \cup {0}
  /\ fault \in {"none", "segv", "heap"}

----------------------------------------------------------------------------
(* Vocabulary of the properties *)

\* What dotenv_get(key) returns when it runs alone from store c: the value
\* of the first of the var_count entries whose key is key, NULL if none.
RECURSIVE LookupFrom(_, _, _)
LookupFrom(c, key, i) ==
  IF i >= c.var_count THEN ABSENT
  ELSE IF ValidIndex(c, i) /\ c.mem[i + 1].key = key THEN c.mem[i + 1].value
  ELSE LookupFrom(c, key, i + 1)

Lookup(c, key) == LookupFrom(c, key, 0)

\* The entries of store c, in insertion order.
Entries(c) == [j \in 1..c.var_count |->
                 IF ValidIndex(c, j - 1) THEN c.mem[j] ELSE UninitSlot]

\* The entries the loop of dotenv_load makes of a file, in file order.
RECURSIVE EntriesFrom(_, _)
EntriesFrom(content, pos) ==
  IF pos > Len(content) THEN <<>>
  ELSE LET chunk == fgets(content, pos)
           r == ParseLine(chunk)
           rest == EntriesFrom(content, pos + Len(chunk))
       IN IF r.skip THEN rest
          ELSE <<[key |-> r.key, value |-> r.value]>> \o rest

StaticEntries == [name \in FileNames |-> EntriesFrom(StaticContent(name), 1)]

FileEntries(name) ==
  IF name \in FileNames \ {"fline"} THEN StaticEntries[name]
  ELSE EntriesFrom(Content(name), 1)

\* The keys the properties ask for: some fixed ones and every stored one.
ProbeKeys(c) ==
  {<<"A">>, <<"B">>, <<"C">>, <<"a">>, <<"k">>, <<"K">>, <<"Z">>}
    \cup {Entries(c)[j].key : j \in 1..c.var_count}

\* The value of the first entry of the sequence es with the key, NULL if none.
FirstValue(es, key) ==
  LET idx == {j \in 1..Len(es) : es[j].key = key}
  IN IF idx = {} THEN ABSENT
     ELSE es[CHOOSE j \in idx : \A m \in idx : j <= m].value

\* Thread t is between calls and its last call was c (an index into hist).
JustReturned(t) == pc[t] = "idle" /\ hist[t] # <<>>
Last(t) == hist[t][Len(hist[t])]

\* Thread t has made all its calls.
Done(t) == pc[t] = "idle" /\ ip[t] > Len(prog[t])

\* Thread t waits for ctx.mutex while holding it: it can never go on.
SelfBlocked(t) ==
  /\ pc[t] \in {"init_lock", "ins_lock", "rs_lock", "get_lock", "free_lock"}
  /\ mutex.owner = t
  /\ ~LockEnabled(t)

----------------------------------------------------------------------------
(* C1: a single-threaded load of 11 well-formed entries with distinct keys *)
(* into the empty store, with no allocation failing, does not get stuck,   *)
(* returns success, and afterwards every one of the 11 keys is found with  *)
(* its value.                                                              *)
C1_LoadElevenSucceeds ==
  (prog[1] = <<LoadOp("f11")>> /\ allocFails = 0) =>
    /\ ~SelfBlocked(1)
    /\ Done(1) =>
         /\ hist[1][1].ret = OK
         /\ \A n \in 1..11 :
              Lookup(ctx, <<ElevenKeys[n]>>) = <<ElevenKeys[n], "1">>

(* C2: once two threads have each returned from a successful load of files *)
(* with disjoint keys, every key of both files is found with the value of  *)
(* its own file.                                                           *)
C2_ConcurrentLoadsKeepAll ==
  (/\ fault = "none"
   /\ \A t \in Threads :
        /\ Done(t)
        /\ Len(prog[t]) = 1
        /\ prog[t][1].op = "load"
        /\ hist[t][1].ret = OK) =>
    \A t \in Threads :
      LET es == FileEntries(prog[t][1].arg[1])
      IN \A j \in 1..Len(es) : Lookup(ctx, es[j].key) = es[j].value

(* C3: when dotenv_free has just returned, the store is empty, has capacity *)
(* zero and no backing array, and no key is found; a get made right after  *)
(* a free returns NULL; and when a successful load made right after a free  *)
(* has returned, the store holds exactly the entries of the loaded file.    *)
C3_ReleaseThenReload ==
  JustReturned(1) =>
    LET n == Len(hist[1]) IN
    /\ Last(1).op = "free" =>
         /\ ~ctx.alloc /\ ctx.var_count = 0 /\ ctx.capacity = 0
         /\ \A k \in ProbeKeys(snap[1]) : Lookup(ctx, k) = ABSENT
    /\ (n >= 2 /\ hist[1][n - 1].op = "free" /\ Last(1).op = "get") =>
         Last(1).ret = ABSENT
    /\ (n >= 2 /\ hist[1][n - 1].op = "free" /\ Last(1).op = "load"
          /\ Last(1).ret = OK) =>
         LET es == FileEntries(Last(1).arg[1])
         IN /\ ctx.alloc
            /\ Entries(ctx) = es
            /\ \A k \in ProbeKeys(ctx) \cup ProbeKeys(snap[1]) :
                 Lookup(ctx, k) = FirstValue(es, k)

\* A load, a free and a second load that stored entries have returned.
C3_Witness ==
  /\ Done(1)
  /\ Len(hist[1]) = 3
  /\ hist[1][1].op = "load" /\ hist[1][1].ret = OK /\ hist[1][1].arg = <<"fA">>
  /\ hist[1][2].op = "free"
  /\ hist[1][3].op = "load" /\ hist[1][3].ret = OK /\ hist[1][3].arg = <<"fdup">>
  /\ ctx.var_count = 2

(* C4: in a single-threaded application, a get that has just returned gave *)
(* the value of the earliest-inserted entry whose key equals the queried   *)
(* key, and NULL when the store has no entry with that key.                *)
C4_GetReturnsFirstInserted ==
  (JustReturned(1) /\ Last(1).op = "get") =>
    LET es == Entries(ctx)
        idx == {j \in 1..Len(es) : es[j].key = Last(1).arg}
    IN IF idx = {} THEN Last(1).ret = ABSENT
       ELSE \E j \in idx : /\ \A m \in idx : j <= m
                            /\ Last(1).ret = es[j].value

\* A get of a key that three entries carry, first loaded as A=foo, has returned.
C4_Witness ==
  /\ JustReturned(1)
  /\ Last(1).op = "get"
  /\ Last(1).ret = <<"f", "o", "o">>
  /\ Cardinality({j \in 1..ctx.var_count : Entries(ctx)[j].key = <<"A">>}) = 3

----------------------------------------------------------------------------
(* The file format as the specification words it *)

\* The position of the first '=' of a line, 0 if it has none.
FirstEq(l) ==
  IF \E i \in 1..Len(l) : l[i] = "="
  THEN CHOOSE i \in 1..Len(l) : l[i] = "=" /\ \A m \in 1..(i - 1) : l[m] # "="
  ELSE 0

\* The text between the leading and the trailing whitespace of s.
Trimmed(s) ==
  LET ns == {i \in 1..Len(s) : ~IsSpace(s[i])}
  IN IF ns = {} THEN <<>>
     ELSE SubSeq(s, CHOOSE i \in ns : \A m \in ns : i <= m,
                    CHOOSE i \in ns : \A m \in ns : i >= m)

\* s up to its first '#' that an even number of '"' precedes.
WithoutComment(s) ==
  LET Quotes(i) == Cardinality({m \in 1..(i - 1) : s[m] = "\""})
      cs == {i \in 1..Len(s) : s[i] = "#" /\ Quotes(i) % 2 = 0}
  IN IF cs = {} THEN s
     ELSE SubSeq(s, 1, (CHOOSE i \in cs : \A m \in cs : i <= m) - 1)

\* s without one layer of surrounding double quotes.
Unquoted(s) ==
  IF Len(s) >= 2 /\ s[1] = "\"" /\ s[Len(s)] = "\"" THEN SubSeq(s, 2, Len(s) - 1)
  ELSE s

\* The value the specification gives the entry line l.
SpecValue(l) ==
  Unquoted(Trimmed(WithoutComment(SubSeq(l, FirstEq(l) + 1, Len(l)))))

\* The lines that insert nothing: empty, starting with '#', without '=',
\* or with a key that is empty after trimming.
IsSkippedLine(l) ==
  \/ l = <<>>
  \/ l[1] = "#"
  \/ FirstEq(l) = 0
  \/ Trimmed(SubSeq(l, 1, FirstEq(l) - 1)) = <<>>

\* The lines of a text: each ends at a '\n', the last one at the '\n' or
\* at the end of the text.
RECURSIVE TextLines(_)
TextLines(text) ==
  LET nls == {i \in 1..Len(text) : text[i] = LF}
  IN IF text = <<>> THEN <<>>
     ELSE IF nls = {} THEN <<text>>
     ELSE LET nl == CHOOSE i \in nls : \A m \in nls : i <= m
          IN <<SubSeq(text, 1, nl - 1)>>
               \o TextLines(SubSeq(text, nl + 1, Len(text)))

\* The number of lines of a text that are not skipped.
EntryLineCount(text) ==
  Cardinality({j \in 1..Len(TextLines(text)) : ~IsSkippedLine(TextLines(text)[j])})

(* C5: after the successful load of a file of one entry line without       *)
(* placeholder into the empty store, the stored value is the text after    *)
(* the first '=' with the unquoted trailing comment removed, trimmed and    *)
(* without one layer of surrounding double quotes; after the load of the    *)
(* lines K=v # c and Q="v # n", K has the value v and Q the value v # n.    *)
C5_ValueIsStrippedAndUnquoted ==
  (Done(1) /\ Len(hist[1]) = 1 /\ Last(1).op = "load" /\ Last(1).ret = OK) =>
    /\ (Last(1).arg = <<"fline">> /\ ctx.var_count = 1) =>
         Entries(ctx)[1].value = SpecValue(pline)
    /\ Last(1).arg = <<"fcmt">> =>
         /\ Lookup(ctx, <<"K">>) = <<"v">>
         /\ Lookup(ctx, <<"Q">>) = <<"v", " ", "#", " ", "n">>

\* The value a "${name}" of v stands for in store c; v with every
\* placeholder replaced by the value its name has in c, or by nothing.
RECURSIVE Resolved(_, _)
Resolved(v, c) ==
  IF v = <<>> THEN <<>>
  ELSE IF Len(v) >= 2 /\ v[1] = "$" /\ v[2] = "{" /\ strchr(v, "}") # 0
  THEN LET close == strchr(v, "}")
           found == Lookup(c, SubSeq(v, 3, close - 1))
       IN (IF found = ABSENT THEN <<>> ELSE found)
            \o Resolved(SubSeq(v, close + 1, Len(v)), c)
  ELSE <<Head(v)>> \o Resolved(Tail(v), c)

(* C6: after the successful load of a file into the empty store, the value *)
(* of each entry is the value of its line with every placeholder ${A}      *)
(* replaced by the value A had in the store when the entry was stored: by  *)
(* foo for A=foo on an earlier line, by nothing for an A that is absent or *)
(* defined on a later line only.                                           *)
C6_PlaceholdersResolved ==
  (Done(1) /\ Len(hist[1]) = 1 /\ Last(1).op = "load" /\ Last(1).ret = OK
     /\ Last(1).arg \in {<<"fph">>, <<"fA">>}) =>
    LET es == FileEntries(Last(1).arg[1])
    IN /\ ctx.var_count = Len(es)
       /\ \A j \in 1..Len(es) :
            Entries(ctx)[j].value =
              Resolved(es[j].value, [ctx EXCEPT !.var_count = j - 1])

(* C7: while a single-threaded load reads its file, and when it has        *)
(* returned success, the number of entries it has added is the number of   *)
(* the lines read so far that are not empty, do not start with '#',        *)
(* contain '=' and have a key that is not empty after trimming.            *)
C7_SkippedLinesAddNothing ==
  (/\ ip[1] <= Len(prog[1]) + 1
   /\ \/ pc[1] = "fgets"
      \/ JustReturned(1) /\ Last(1).op = "load" /\ Last(1).ret = OK) =>
    LET name == IF pc[1] = "fgets" THEN loc[1].file ELSE Last(1).arg[1]
    IN ctx.var_count - snap[1].var_count =
         EntryLineCount(SubSeq(Content(name), 1, loc[1].pos - 1))

(* C8: whenever a thread executes one of the two stores of an insert       *)
(* (ctx.vars[ctx.var_count].key = ..., .value = ...), ctx.vars points to a *)
(* live array and ctx.var_count is strictly below ctx.capacity.            *)
C8_InsertsStayInBounds ==
  [][\A t \in Threads :
       (InsKey(t) \/ InsValue(t)) =>
         (ctx.alloc /\ ~ctx.freed /\ ctx.var_count < ctx.capacity)]_vars

(* C9: when a load of a path that cannot be opened has just returned in a  *)
(* single-threaded application, it returned failure, and the entries and   *)
(* the value found for every key are what they were when it was called.    *)
C9_FailedOpenChangesNothing ==
  (JustReturned(1) /\ Last(1).op = "load" /\ Last(1).arg = <<MissingPath>>) =>
    /\ Last(1).ret = FAIL
    /\ Entries(ctx) = Entries(snap[1])
    /\ \A k \in ProbeKeys(ctx) \cup ProbeKeys(snap[1]) :
         Lookup(ctx, k) = Lookup(snap[1], k)

\* A load of a missing path has failed on a store that holds entries.
C9_Witness ==
  /\ JustReturned(1)
  /\ Last(1).op = "load" /\ Last(1).arg = <<MissingPath>> /\ Last(1).ret = FAIL
  /\ ctx.var_count = 2
  /\ Lookup(ctx, <<"A">>) = <<"f", "o", "o">>

\* The statements that read or write ctx.vars, ctx.var_count or
\* ctx.capacity, by the pc of the thread about to execute them.
AccessesCtx ==
  {"init_check", "init_set", "ins_check", "rs_realloc", "rs_assign", "ins_key",
   "ins_value", "ins_test", "ins_incr", "get_scan", "get_ret", "free_body"}

(* C10: a thread that is about to read or write ctx.vars, ctx.var_count or *)
(* ctx.capacity holds ctx.mutex.                                           *)
C10_AccessUnderMutex ==
  \A t \in Threads :
    (fault = "none" /\ pc[t] \in AccessesCtx) => mutex.owner = t

----------------------------------------------------------------------------
(* C11: under fair scheduling every call a thread has started returns (no  *)
(* thread waits for ctx.mutex forever), and ctx.mutex is unlocked whenever *)
(* every thread is between calls.                                          *)
C11_EveryCallReturns ==
  /\ \A t \in Threads : (pc[t] # "idle") ~> (pc[t] = "idle")
  /\ []((\A t \in Threads : pc[t] = "idle") => mutex.owner = 0)

\* The counted entries as dotenv_resize carries them: while a thread is
\* between a realloc that moved the array and the assignment of the new
\* pointer to ctx.vars, they are in the new block.
StoredEntries ==
  LET movers == {t \in Threads : pc[t] = "rs_assign" /\ loc[t].moved}
  IN IF movers = {} \/ fault # "none" THEN Entries(ctx)
     ELSE LET m == loc[CHOOSE t \in movers : TRUE].newmem
          IN [j \in 1..ctx.var_count |->
                IF j <= Len(m) THEN m[j] ELSE UninitSlot]

(* C12: in every state ctx.var_count is at most ctx.capacity; a step      *)
(* changes ctx.capacity only to the initial capacity (initialize), to      *)
(* twice its value (growth) or to zero (release); and a step that is not   *)
(* a release keeps every counted entry at its index with its key and its   *)
(* value, so that the entries only grow by appending.                      *)
C12_CountWithinCapacity ==
  /\ [](fault = "none" => ctx.var_count <= ctx.capacity)
  /\ [][fault' = "none" =>
         /\ ctx'.capacity \in
              {ctx.capacity, INITIAL_CAPACITY, 2 * ctx.capacity, 0}
         /\ \/ ~ctx'.alloc /\ ctx'.var_count = 0 /\ ctx'.capacity = 0
            \/ /\ ctx'.var_count >= ctx.var_count
               /\ \A j \in 1..ctx.var_count :
                    StoredEntries'[j] = StoredEntries[j]]_vars

(* C13: when a single-threaded load of a file that was opened has just    *)
(* returned failure (the growth of the array or a copy of a key or value   *)
(* failed), ctx.mutex is unlocked, the failing line is the last line that  *)
(* was read and is not counted, the entries are those the store held       *)
(* before the load followed by the entries of the lines before the failing *)
(* line, and every key is found with the value it has in that sequence.    *)
C13_FailedInsertKeepsCommitted ==
  (/\ JustReturned(1)
   /\ Last(1).op = "load" /\ Last(1).ret = FAIL
   /\ loc[1].pos >= 1) =>
    LET content == Content(Last(1).arg[1])
        read == EntriesFrom(SubSeq(content, 1, loc[1].pos - 1), 1)
        committed == SubSeq(read, 1, Len(read) - 1)
        kept == Entries(snap[1]) \o committed
    IN /\ mutex.owner = 0
       /\ allocFails >= 1
       /\ read # <<>>
       /\ ctx.var_count = snap[1].var_count + Len(committed)
       /\ Entries(ctx) = kept
       /\ \A k \in ProbeKeys(ctx) \cup ProbeKeys(snap[1]) \cup {read[Len(read)].key} :
            Lookup(ctx, k) = FirstValue(kept, k)

\* The growth of the full array failed at the 11th line of a load, where
\* the relock of ctx.mutex does not block: the 10 entries are kept.
C13_Witness ==
  /\ JustReturned(1)
  /\ Last(1).op = "load" /\ Last(1).arg = <<"f11">> /\ Last(1).ret = FAIL
  /\ ctx.var_count = 10 /\ ctx.capacity = 10
  /\ Lookup(ctx, <<"j">>) = <<"j", "1">>
  /\ Lookup(ctx, <<"k">>) = ABSENT

\* Whether the sequence p is a prefix of the sequence q.
IsPrefix(p, q) == Len(p) <= Len(q) /\ p = SubSeq(q, 1, Len(p))

(* C14: when two threads each load a file (the two files have no key in    *)
(* common) and one of them has just counted an entry, every counted entry  *)
(* has the key and the value of one line of one of the two files, and the  *)
(* counted entries that carry keys of the file of a thread are the first   *)
(* entries of that file, in file order.                                    *)
C14_EntriesPairedAndOrdered ==
  (/\ fault = "none"
   /\ \A t \in Threads : Len(prog[t]) = 1 /\ prog[t][1].op = "load"
   /\ \E t \in Threads : pc[t] = "ins_unlock") =>
    LET es == [t \in Threads |-> FileEntries(prog[t][1].arg[1])]
        lines == UNION {{es[t][m] : m \in 1..Len(es[t])} : t \in Threads}
        keys == [t \in Threads |-> {es[t][m].key : m \in 1..Len(es[t])}]
        stored == Entries(ctx)
    IN /\ \A j \in 1..ctx.var_count : stored[j] \in lines
       /\ \A t \in Threads :
            IsPrefix(SelectSeq(stored, LAMBDA e : e.key \in keys[t]), es[t])

(* C15: in a single-threaded application, when dotenv_load is called on a  *)
(* store that has its array, the store is unchanged when dotenv_init has   *)
(* returned; and when that load has returned success, the entries are the  *)
(* entries the store held at the call followed by the entries of the       *)
(* file, and the capacity is the capacity at the call, doubled if the      *)
(* entries did not fit in it.                                              *)
C15_SecondLoadKeepsFirst ==
  /\ (pc[1] = "fopen" /\ snap[1].alloc) => ctx = snap[1]
  /\ (/\ JustReturned(1)
      /\ Last(1).op = "load" /\ Last(1).ret = OK
      /\ snap[1].alloc) =>
       LET es == FileEntries(Last(1).arg[1])
       IN /\ ctx.var_count = snap[1].var_count + Len(es)
          /\ Entries(ctx) = Entries(snap[1]) \o es
          /\ ctx.capacity = IF ctx.var_count <= snap[1].capacity
                            THEN snap[1].capacity
                            ELSE 2 * snap[1].capacity

\* A second load has returned on the store that held the two entries of a
\* first load: the store has the four entries, the first two unchanged.
C15_Witness ==
  /\ Done(1)
  /\ Len(hist[1]) = 2
  /\ hist[1][1].op = "load" /\ hist[1][1].arg = <<"fA">> /\ hist[1][1].ret = OK
  /\ hist[1][2].op = "load" /\ hist[1][2].arg = <<"fdup">> /\ hist[1][2].ret = OK
  /\ snap[1].var_count = 2
  /\ ctx.var_count = 4 /\ ctx.capacity = INITIAL_CAPACITY
  /\ Entries(ctx)[1] = [key |-> <<"A">>, value |-> <<"f", "o", "o">>]
  /\ Entries(ctx)[3] = [key |-> <<"A">>, value |-> <<"x">>]

\* The number of '=' characters of the string s.
EqCount(s) == Cardinality({i \in 1..Len(s) : s[i] = "="})

(* C16: after the successful single-threaded load of a file of one line    *)
(* that stored an entry, the key is the text before the first '=' of the   *)
(* line without its leading and trailing whitespace, the value is the      *)
(* text after that '=' without its leading and trailing whitespace, with   *)
(* every further '=' of the line in it, and dotenv_get finds that value;   *)
(* the line K= stores K with the empty string, which is not NULL; and the  *)
(* lines F=g=h and G= of a longer file give F the value g=h and G the      *)
(* empty string.                                                           *)
C16_SplitAtFirstEquals ==
  (Done(1) /\ Len(hist[1]) = 1 /\ Last(1).op = "load" /\ Last(1).ret = OK) =>
    /\ (Last(1).arg = <<"fline">> /\ ctx.var_count = 1) =>
         LET d == FirstEq(pline)
             e == Entries(ctx)[1]
         IN /\ d # 0
            /\ e.key = Trimmed(SubSeq(pline, 1, d - 1))
            /\ e.value = Trimmed(SubSeq(pline, d + 1, Len(pline)))
            /\ EqCount(e.key) = 0
            /\ EqCount(e.value) = EqCount(pline) - 1
            /\ Lookup(ctx, e.key) = e.value
    /\ (Last(1).arg = <<"fline">> /\ pline = <<"K", "=">>) =>
         /\ ctx.var_count = 1
         /\ Lookup(ctx, <<"K">>) = <<>>
         /\ Lookup(ctx, <<"K">>) # ABSENT
    /\ Last(1).arg = <<"fmix">> =>
         /\ Lookup(ctx, <<"F">>) = <<"g", "=", "h">>
         /\ Lookup(ctx, <<"G">>) = <<>>

\* The load of the one line K=v= has stored K with the value v=.
C16_Witness ==
  /\ Done(1)
  /\ Len(hist[1]) = 1
  /\ Last(1).op = "load" /\ Last(1).arg = <<"fline">> /\ Last(1).ret = OK
  /\ pline = <<"K", "=", "v", "=">>
  /\ ctx.var_count = 1
  /\ Lookup(ctx, <<"K">>) = <<"v", "=">>

(* C17: when a single-threaded load has returned success, it has added at *)
(* most one entry for each line of its file (the text up to a '\n'), and   *)
(* the key of every entry it added is the trimmed text before the first    *)
(* '=' of one of these lines: of a line longer than MAX_LINE_LENGTH no     *)
(* later part is read as a line of its own.                                *)
C17_LongLineGivesOneEntry ==
  (JustReturned(1) /\ Last(1).op = "load" /\ Last(1).ret = OK) =>
    LET lines == TextLines(Content(Last(1).arg[1]))
        linekeys == {Trimmed(SubSeq(lines[n], 1, FirstEq(lines[n]) - 1)) :
                       n \in {m \in 1..Len(lines) : FirstEq(lines[m]) # 0}}
    IN /\ ctx.var_count - snap[1].var_count <= Len(lines)
       /\ \A j \in (snap[1].var_count + 1)..ctx.var_count :
            Entries(ctx)[j].key \in linekeys

(* C18: in a single-threaded application, a dotenv_free called right after *)
(* a dotenv_free, or before any dotenv_load, finds ctx.vars NULL, frees    *)
(* nothing and leaves ctx as it was at the call: NULL, with var_count and  *)
(* capacity zero.                                                          *)
C18_FreeIsIdempotent ==
  LET n == Len(hist[1])
      released == \/ \A j \in 1..n : hist[1][j].op # "load"
                  \/ n >= 1 /\ hist[1][n].op = "free"
      again == \/ \A j \in 1..n : hist[1][j].op # "load"
               \/ n >= 2 /\ hist[1][n - 1].op = "free"
  IN /\ (pc[1] \in {"free_lock", "free_body", "free_unlock"} /\ released) =>
          /\ fault = "none"
          /\ ~ctx.alloc
          /\ ctx = snap[1]
     /\ (JustReturned(1) /\ Last(1).op = "free" /\ again) =>
          /\ ctx = snap[1]
          /\ ~ctx.alloc /\ ctx.var_count = 0 /\ ctx.capacity = 0
          /\ mutex.owner = 0

\* A load that stored two entries, a free and a second free have returned.
C18_Witness ==
  /\ Done(1)
  /\ Len(hist[1]) = 3
  /\ hist[1][1].op = "load" /\ hist[1][1].arg = <<"fA">> /\ hist[1][1].ret = OK
  /\ hist[1][2].op = "free"
  /\ hist[1][3].op = "free"
  /\ ctx = CtxInit

====
